---- MODULE Spec2Model ----
(***************************************************************************)
(* Model of the energy dashboard (src/app.py): the one-time startup        *)
(* (load_data, year bounds, ISO resolution, dropna), the section buttons   *)
(* (render_content) and the three chart callbacks (update_worldwide_map,   *)
(* update_energy_types, update_search_section) with the tables the chart   *)
(* builders derive from the working dataset.                               *)
(***************************************************************************)
EXTENDS Integers, Sequences, FiniteSets, TLC

VARIABLES
    phase,            \* "boot", "running", "error" (static alert), "crashed" (module raised)
    layout,           \* app.layout: "none", "error" or "interactive"
    callbacks,        \* names of the registered @app.callback functions
    csv,              \* rows of the CSV file as read (missing cells are NaN)
    energy_data,      \* the working dataset (sequence of rows)
    energy_entities,  \* options of the entity / region dropdowns
    energy_year_min,  \* lower bound of the year widgets
    energy_year_max,  \* upper bound of the year widgets
    triggered,        \* dash.callback_context.triggered of the last render_content
    prompt,           \* TRUE when the 'please select a section' heading is shown
    widgets,          \* input component id -> current value (components in 'content')
    figs,             \* graph component id -> figure (components in 'content')
    pending,          \* the callback of freshly created widgets has not run yet
    cb_result         \* outcome of the last chart callback

vars == <<phase, layout, callbacks, csv, energy_data, energy_entities,
          energy_year_min, energy_year_max, triggered, prompt, widgets,
          figs, pending, cb_result>>

(***************************************************************************)
(* Bounds of the model.                                                    *)
(***************************************************************************)
MaxRows == 2        \* rows of the CSV file
YearSpan == 1       \* the CSV years are FirstYear .. FirstYear + YearSpan

None == "None"      \* Python None where a string is expected
NoYear == -2        \* Python None where a year is expected
NaN == -1           \* pandas missing value / float nan (cells are >= 0 otherwise)

(***************************************************************************)
(* Columns and energy types (energy_types mapping).                        *)
(***************************************************************************)
Wind == "Electricity from wind - TWh"
Solar == "Electricity from solar - TWh"
Hydro == "Electricity from hydro - TWh"
Other == "Other renewables including bioenergy - TWh"

\* list(energy_types.values()), in the mapping's order
energy_types == <<Wind, Solar, Hydro, Other>>

\* the energy_columns list of load_data
energy_columns == {Wind, Hydro, Solar, Other}

Range(s) == {s[i] : i \in DOMAIN s}

(***************************************************************************)
(* Entity names of the input, in the order Python sorts them, and the      *)
(* pycountry lookup of each.                                               *)
(***************************************************************************)
EntityOrder == <<"France", "Tunisia", "World">>
Entities == Range(EntityOrder)

EntityRank(e) == CHOOSE i \in DOMAIN EntityOrder : EntityOrder[i] = e

\* pycountry.countries.lookup(name).alpha_3, None on LookupError
get_iso_alpha3(entity_name) ==
    CASE entity_name = "France" -> "FRA"
      [] entity_name = "Tunisia" -> "TUN"
      [] OTHER -> None

FirstYear == 2020
Years == FirstYear .. (FirstYear + YearSpan)

(***************************************************************************)
(* The CSV files considered: up to MaxRows lines in any order, repeated    *)
(* lines allowed.  A line is an (entity, year) pair of the reference data  *)
(* below; some of its cells are missing.                                   *)
(***************************************************************************)
Profiles ==
    << [w |-> 1, s |-> 2, h |-> 0, o |-> 0],
       [w |-> 3, s |-> NaN, h |-> 0, o |-> 0],
       [w |-> 2, s |-> 1, h |-> NaN, o |-> 1] >>

\* Tunisia has wind=1, solar=2 in the first year and wind=3, solar missing in the next
ProfileOf(e, y) == Profiles[((EntityRank(e) + (y - FirstYear) + 1) % Len(Profiles)) + 1]

CsvLine(e, y) ==
    LET p == ProfileOf(e, y)
    IN  [Entity |-> e, Year |-> y, Code |-> "code"] @@
        (Wind :> p.w @@ Solar :> p.s @@ Hydro :> p.h @@ Other :> p.o)

CsvLines == {CsvLine(e, y) : e \in Entities, y \in Years}

CsvFiles == UNION {[1..n -> CsvLines] : n \in 0..MaxRows}

\* what may be found at the path given to load_data
Files ==
    {[status |-> st, lines |-> <<>>] : st \in {"absent", "unparseable", "no_code_column"}}
    \cup {[status |-> "ok", lines |-> f] : f \in CsvFiles}

(***************************************************************************)
(* Sums and order helpers (pandas sum / min / max / sorted unique).        *)
(***************************************************************************)
RECURSIVE SumCol(_, _)
\* sum of column col over the rows of a sequence
SumCol(rows, col) ==
    IF rows = <<>> THEN 0
    ELSE rows[1][col] + SumCol(Tail(rows), col)

SetMin(S) == CHOOSE x \in S : \A y \in S : x <= y
SetMax(S) == CHOOSE x \in S : \A y \in S : x >= y

RECURSIVE SortedSeq(_)
\* the integers of S in ascending order
SortedSeq(S) ==
    IF S = {} THEN <<>>
    ELSE LET m == SetMin(S) IN <<m>> \o SortedSeq(S \ {m})

\* Series.min() / Series.max(): nan on an empty column
YearMin(rows) == IF rows = <<>> THEN NaN ELSE SetMin({rows[i].Year : i \in DOMAIN rows})
YearMax(rows) == IF rows = <<>> THEN NaN ELSE SetMax({rows[i].Year : i \in DOMAIN rows})

\* sorted(df['Entity'].unique())
SortedEntities(rows) ==
    SelectSeq(EntityOrder, LAMBDA e : \E i \in DOMAIN rows : rows[i].Entity = e)

(***************************************************************************)
(* load_data                                                               *)
(***************************************************************************)
\* df.drop(columns='Code'); fillna(0) on the energy columns
LoadRow(line) ==
    [c \in (DOMAIN line) \ {"Code"} |->
        IF c \in energy_columns /\ line[c] = NaN THEN 0 ELSE line[c]]

load_data(file) ==
    CASE file.status = "absent" ->
            [raised |-> "FileNotFoundError", df |-> <<>>]
      [] file.status = "unparseable" ->
            [raised |-> "ValueError", df |-> <<>>]
      [] file.status = "no_code_column" ->
            [raised |-> "KeyError", df |-> <<>>]
      [] OTHER ->
            [raised |-> None,
             df |-> [i \in DOMAIN file.lines |-> LoadRow(file.lines[i])]]

(***************************************************************************)
(* ISO codes: the ISO_A3 column and dropna(subset=['ISO_A3']).             *)
(***************************************************************************)
AddIso(rows) ==
    [i \in DOMAIN rows |-> rows[i] @@ [ISO_A3 |-> get_iso_alpha3(rows[i].Entity)]]

\* dropna omitted: rows without a code stay
DropNaIso_keep_all(rows) == rows

DropNaIso(rows) == SelectSeq(rows, LAMBDA r : r.ISO_A3 # None)

CallbackNames ==
    {"render_content", "update_worldwide_map", "update_energy_types",
     "update_search_section"}

(***************************************************************************)
(* Figures.  A placeholder is go.Figure() with a title only; a chart       *)
(* carries the table handed to plotly express.                             *)
(***************************************************************************)
NoFigure == [kind |-> "none"]       \* dcc.Graph created without a figure

SelectYearEntityMsg == "Please select a year and at least one entity to display the data."
NoDataYearEntityMsg == "No data available for the selected year and entities."
SelectRegionTypeMsg == "Please select at least one region and an energy type to display the data."
NoDataFiltersMsg == "No data available for the selected filters."

empty_fig(title) == [kind |-> "placeholder", title |-> title]

(***************************************************************************)
(* pandas building blocks.  A grouped frame is a sequence of               *)
(* [index, vals]; a plain table is a sequence of rows (column -> value).   *)
(***************************************************************************)
RowsOfYear(data, y) == SelectSeq(data, LAMBDA r : r.Year = y)
RowsOfEntity(data, e) == SelectSeq(data, LAMBDA r : r.Entity = e)

\* data.groupby('Year')[cols].sum(): one group per distinct year, ascending
GroupByYearSum(data, cols) ==
    LET ys == SortedSeq({data[i].Year : i \in DOMAIN data})
    IN  [k \in DOMAIN ys |->
            [index |-> ys[k],
             vals |-> [c \in cols |-> SumCol(RowsOfYear(data, ys[k]), c)]]]

RECURSIVE RunningSum(_, _)
\* sum of column[j] for j in 1..k
RunningSum(column, k) ==
    IF k = 0 THEN 0 ELSE column[k] + RunningSum(column, k - 1)

\* .cumsum() of a grouped frame: the value columns only, the index is kept
CumSumFrame(frame) ==
    [k \in DOMAIN frame |->
        [index |-> frame[k].index,
         vals |-> [c \in DOMAIN frame[k].vals |->
                      RunningSum([j \in DOMAIN frame |-> frame[j].vals[c]], k)]]]

\* .reset_index() of a frame grouped by year: the index becomes column 'Year'
ResetIndexYear(frame) ==
    [k \in DOMAIN frame |-> [Year |-> frame[k].index] @@ frame[k].vals]

\* .cumsum() of a plain table: every column is accumulated
CumSumTable(table) ==
    [k \in DOMAIN table |->
        [c \in DOMAIN table[k] |-> RunningSum([j \in DOMAIN table |-> table[j][c]], k)]]

\* data.groupby('Entity')[cols].sum().reset_index(): one row per entity, sorted
GroupByEntitySum(data, cols) ==
    LET es == SortedEntities(data)
    IN  [k \in DOMAIN es |->
            [Entity |-> es[k]] @@
            [c \in cols |-> SumCol(RowsOfEntity(data, es[k]), c)]]

IsoOrder == <<"FRA", "TUN">>

\* all (Entity, ISO_A3) keys in the order groupby sorts them
PairOrder ==
    [k \in 1..(Len(EntityOrder) * Len(IsoOrder)) |->
        <<EntityOrder[((k - 1) \div Len(IsoOrder)) + 1],
          IsoOrder[((k - 1) % Len(IsoOrder)) + 1]>>]

\* data.groupby(['Entity', 'ISO_A3'], as_index=False).agg({col: 'sum'})
GroupByEntityIsoSum(data, col) ==
    LET keys == SelectSeq(PairOrder, LAMBDA p :
                    \E i \in DOMAIN data :
                        data[i].Entity = p[1] /\ data[i].ISO_A3 = p[2])
    IN  [k \in DOMAIN keys |->
            [Entity |-> keys[k][1], ISO_A3 |-> keys[k][2]] @@
            (col :> SumCol(SelectSeq(data, LAMBDA r :
                        r.Entity = keys[k][1] /\ r.ISO_A3 = keys[k][2]), col))]

(***************************************************************************)
(* Chart builders.                                                         *)
(***************************************************************************)
create_energy_bar_fig(data) == [kind |-> "bar", table |-> data]

create_energy_pie_fig(data, year) ==
    LET pie_data == GroupByEntitySum(data, Range(energy_types))
        pie_sum == [k \in DOMAIN energy_types |->
                       ("Energy Type" :> energy_types[k]) @@
                       ("Total Consumption (TWh)" :> SumCol(pie_data, energy_types[k]))]
    IN  [kind |-> "pie", table |-> pie_sum, year |-> year]

create_energy_area_fig(data, cumulative) ==
    LET area_data ==
            IF cumulative
            THEN ResetIndexYear(CumSumFrame(GroupByYearSum(data, Range(energy_types))))
            ELSE ResetIndexYear(GroupByYearSum(data, Range(energy_types)))
    IN  [kind |-> "area", table |-> area_data, cumulative |-> cumulative]

\* the map built from every year instead of the latest one
create_worldwide_map_all_years(data, energy_type) ==
    [kind |-> "choropleth", table |-> GroupByEntityIsoSum(data, energy_type),
     color |-> energy_type, latest_year |-> YearMax(data)]

create_worldwide_map(data, energy_type) ==
    LET latest_year == YearMax(data)
        map_data == GroupByEntityIsoSum(RowsOfYear(data, latest_year), energy_type)
    IN  [kind |-> "choropleth", table |-> map_data, color |-> energy_type,
         latest_year |-> latest_year]

(***************************************************************************)
(* Chart callbacks.  Each yields its outcome ("returned", or the exception *)
(* that left the handler) and the figures of its outputs.                  *)
(***************************************************************************)
Returned(f) == [outcome |-> "returned", figs |-> f]
Raised(exc) == [outcome |-> exc, figs |-> <<>>]

update_worldwide_map(selected_energy_type) ==
    IF selected_energy_type = None
    THEN Raised("PreventUpdate")
    ELSE Returned("fig-worldwide-map" :>
                    create_worldwide_map(energy_data, selected_energy_type))

\* energy_data[(Year == selected_year) & Entity.isin(selected_entities)]
FilterYearEntities(data, selected_year, selected_entities) ==
    SelectSeq(data, LAMBDA r :
        r.Year = selected_year /\ r.Entity \in selected_entities)

\* the cumulative filter taking the selected year only
FilterUpToYearEntities_single_year(data, selected_year, selected_entities) ==
    SelectSeq(data, LAMBDA r :
        r.Year = selected_year /\ r.Entity \in selected_entities)

\* energy_data[(Year <= selected_year) & Entity.isin(selected_entities)]
FilterUpToYearEntities(data, selected_year, selected_entities) ==
    SelectSeq(data, LAMBDA r :
        r.Year <= selected_year /\ r.Entity \in selected_entities)

update_energy_types(selected_year, selected_entities) ==
    IF selected_year = NoYear \/ selected_entities = {}
    THEN LET f == empty_fig(SelectYearEntityMsg)
         IN  Returned("fig-energy-pie" :> f @@ "fig-energy-area" :> f
                      @@ "fig-energy-bar" :> f)
    ELSE LET filtered_df ==
                 FilterYearEntities(energy_data, selected_year, selected_entities)
             cumulative_data ==
                 FilterUpToYearEntities(energy_data, selected_year, selected_entities)
         IN  IF filtered_df = <<>>
             THEN LET f == empty_fig(NoDataYearEntityMsg)
                  IN  Returned("fig-energy-pie" :> f @@ "fig-energy-area" :> f
                               @@ "fig-energy-bar" :> f)
             ELSE Returned(
                    "fig-energy-pie" :> create_energy_pie_fig(filtered_df, selected_year)
                    @@ "fig-energy-area" :> create_energy_area_fig(cumulative_data, TRUE)
                    @@ "fig-energy-bar" :> create_energy_bar_fig(filtered_df))

\* the range filter with an exclusive upper end
FilterYearRangeRegions_exclusive(data, year_range, regions) ==
    SelectSeq(data, LAMBDA r :
        /\ r.Year >= year_range[1]
        /\ r.Year < year_range[2]
        /\ r.Entity \in regions)

\* energy_data[(Year >= year_range[0]) & (Year <= year_range[1]) & Entity.isin(regions)]
FilterYearRangeRegions(data, year_range, regions) ==
    SelectSeq(data, LAMBDA r :
        /\ r.Year >= year_range[1]
        /\ r.Year <= year_range[2]
        /\ r.Entity \in regions)

\* filtered_df.groupby('Year')[energy_type].sum().reset_index().cumsum()
SearchAreaData(filtered_df, energy_type) ==
    CumSumTable(ResetIndexYear(GroupByYearSum(filtered_df, {energy_type})))

update_search_section(year_range, regions, energy_type) ==
    IF regions = {} \/ energy_type = None
    THEN LET f == empty_fig(SelectRegionTypeMsg)
         IN  Returned("fig-search-line" :> f @@ "fig-search-bar" :> f
                      @@ "fig-search-pie" :> f @@ "fig-search-area" :> f)
    ELSE IF year_range = <<>>
    THEN Raised("TypeError")        \* None is not subscriptable
    ELSE LET filtered_df == FilterYearRangeRegions(energy_data, year_range, regions)
         IN  IF filtered_df = <<>>
             THEN LET f == empty_fig(NoDataFiltersMsg)
                  IN  Returned("fig-search-line" :> f @@ "fig-search-bar" :> f
                               @@ "fig-search-pie" :> f @@ "fig-search-area" :> f)
             ELSE Returned(
                    "fig-search-line" :>
                        [kind |-> "line", table |-> filtered_df, y |-> energy_type]
                    @@ "fig-search-bar" :>
                        [kind |-> "bar", table |-> filtered_df, y |-> energy_type]
                    @@ "fig-search-pie" :>
                        [kind |-> "pie",
                         table |-> GroupByEntitySum(filtered_df, {energy_type})]
                    @@ "fig-search-area" :>
                        [kind |-> "area",
                         table |-> SearchAreaData(filtered_df, energy_type)])

(***************************************************************************)
(* render_content: the children of 'content' for the triggering button.    *)
(***************************************************************************)
Buttons == {"btn-worldwide", "btn-energy-types", "btn-search"}

\* the prompt returned when no input triggered the call
PromptChildren == [prompt |-> TRUE, widgets |-> <<>>, figs |-> <<>>]

\* children of the Worldwide section: energy type dropdown and map
WorldwideChildren ==
    [prompt |-> FALSE,
     widgets |-> ("worldwide-energy-type-dropdown" :> Wind),
     figs |-> ("fig-worldwide-map" :> NoFigure)]

\* children of the Energy Types section: year and entity dropdowns, three graphs
EnergyTypesChildren ==
    [prompt |-> FALSE,
     widgets |-> ("year-dropdown" :> energy_year_max
                  @@ "entity-dropdown" :> {"Tunisia"}),
     figs |-> ("fig-energy-pie" :> NoFigure @@ "fig-energy-area" :> NoFigure
               @@ "fig-energy-bar" :> NoFigure)]

\* children of the Search section: slider, two dropdowns, four graphs
SearchChildren ==
    [prompt |-> FALSE,
     widgets |-> ("year-slider" :> <<energy_year_min, energy_year_max>>
                  @@ "region-dropdown" :> {"Tunisia"}
                  @@ "energy-type-dropdown" :> Wind),
     figs |-> ("fig-search-line" :> NoFigure @@ "fig-search-bar" :> NoFigure
               @@ "fig-search-pie" :> NoFigure @@ "fig-search-area" :> NoFigure)]

\* render_content with the Search branch returning the Energy Types section
render_content_wrong_branch(ctx_triggered) ==
    CASE ctx_triggered = None -> PromptChildren
      [] ctx_triggered = "btn-worldwide" -> WorldwideChildren
      [] ctx_triggered = "btn-energy-types" -> EnergyTypesChildren
      [] ctx_triggered = "btn-search" -> EnergyTypesChildren

render_content(ctx_triggered) ==
    CASE ctx_triggered = None -> PromptChildren
      [] ctx_triggered = "btn-worldwide" -> WorldwideChildren
      [] ctx_triggered = "btn-energy-types" -> EnergyTypesChildren
      [] ctx_triggered = "btn-search" -> SearchChildren

(***************************************************************************)
(* Startup: the module body (load, year bounds, ISO codes, layout,         *)
(* callback registration).                                                 *)
(***************************************************************************)
Init ==
    /\ phase = "boot"
    /\ layout = "none"
    /\ callbacks = {}
    /\ csv = <<>>
    /\ energy_data = <<>>
    /\ energy_entities = <<>>
    /\ energy_year_min = NaN
    /\ energy_year_max = NaN
    /\ triggered = "not_called"
    /\ prompt = FALSE
    /\ widgets = <<>>
    /\ figs = <<>>
    /\ pending = FALSE
    /\ cb_result = "none"

Startup(file) ==
    /\ phase = "boot"
    /\ csv' = file.lines
    /\ LET res == load_data(file)
       IN  IF res.raised # None
           THEN \* except Exception: the alert replaces the layout
                /\ phase' = "error"
                /\ layout' = "error"
                /\ callbacks' = {}
                /\ UNCHANGED <<energy_data, energy_entities, energy_year_min,
                               energy_year_max>>
           ELSE /\ energy_entities' = SortedEntities(res.df)
                /\ energy_year_min' = YearMin(res.df)
                /\ energy_year_max' = YearMax(res.df)
                /\ IF YearMin(res.df) = NaN
                   THEN \* range(nan, nan + 1, 1) raises TypeError in the else block
                        /\ phase' = "crashed"
                        /\ layout' = "none"
                        /\ callbacks' = {}
                        /\ energy_data' = res.df
                   ELSE /\ phase' = "running"
                        /\ layout' = "interactive"
                        /\ callbacks' = CallbackNames
                        /\ energy_data' = DropNaIso(AddIso(res.df))
    /\ UNCHANGED <<triggered, prompt, widgets, figs, pending, cb_result>>

(***************************************************************************)
(* The browser session: page load, section buttons, widget changes.        *)
(***************************************************************************)
\* the widgets of a section that is already displayed keep their values
ShowContent_persistent(children) ==
    /\ prompt' = children.prompt
    /\ widgets' = IF DOMAIN children.widgets = DOMAIN widgets
                  THEN widgets ELSE children.widgets
    /\ figs' = children.figs

\* the returned children replace the content: widgets carry the layout's values
ShowContent(children) ==
    /\ prompt' = children.prompt
    /\ widgets' = children.widgets
    /\ figs' = children.figs

\* first call of render_content: no input has triggered it
PageLoad ==
    /\ phase = "running"
    /\ triggered = "not_called"
    /\ triggered' = None
    /\ ShowContent(render_content(None))
    /\ pending' = FALSE
    /\ UNCHANGED <<phase, layout, callbacks, csv, energy_data, energy_entities,
                   energy_year_min, energy_year_max, cb_result>>

Click(button) ==
    /\ phase = "running"
    /\ triggered # "not_called"
    /\ triggered' = button
    /\ ShowContent(render_content(button))
    /\ pending' = TRUE
    /\ cb_result' = "none"
    /\ UNCHANGED <<phase, layout, callbacks, csv, energy_data, energy_entities,
                   energy_year_min, energy_year_max>>

\* the callback whose inputs are the widgets w
RunCallback(w) ==
    CASE "worldwide-energy-type-dropdown" \in DOMAIN w ->
            update_worldwide_map(w["worldwide-energy-type-dropdown"])
      [] "year-dropdown" \in DOMAIN w ->
            update_energy_types(w["year-dropdown"], w["entity-dropdown"])
      [] "year-slider" \in DOMAIN w ->
            update_search_section(w["year-slider"], w["region-dropdown"],
                                  w["energy-type-dropdown"])

\* a callback that filters the global dataset in place instead of a copy
Dispatch_in_place(w) ==
    \E res \in {RunCallback(w)} :
        /\ figs' = IF res.outcome = "returned" THEN res.figs ELSE figs
        /\ cb_result' = res.outcome
        /\ pending' = FALSE
        /\ energy_data' = IF res.outcome = "returned" /\ energy_data # <<>>
                          THEN Tail(energy_data) ELSE energy_data

\* Dash applies a returned result to the outputs; an exception leaves them as
\* they are.  The callbacks only read energy_data.
Dispatch(w) ==
    \E res \in {RunCallback(w)} :
        /\ figs' = IF res.outcome = "returned" THEN res.figs ELSE figs
        /\ cb_result' = res.outcome
        /\ pending' = FALSE
        /\ energy_data' = energy_data

\* the callback fired for the widgets a section button has just created
InitialCallback ==
    /\ phase = "running"
    /\ pending
    /\ Dispatch(widgets)
    /\ UNCHANGED <<phase, layout, callbacks, csv, energy_entities,
                   energy_year_min, energy_year_max, triggered, prompt, widgets>>

\* values a widget can be given
YearOptions == {y \in Years : energy_year_min <= y /\ y <= energy_year_max}
EntityOptions == Range(energy_entities)

WidgetValues(id) ==
    CASE id = "worldwide-energy-type-dropdown" -> Range(energy_types) \cup {None}
      [] id = "energy-type-dropdown" -> Range(energy_types) \cup {None}
      [] id = "year-dropdown" -> YearOptions \cup {NoYear}
      [] id = "entity-dropdown" -> SUBSET EntityOptions
      [] id = "region-dropdown" -> SUBSET EntityOptions
      [] id = "year-slider" ->
            {r \in YearOptions \X YearOptions : r[1] <= r[2]} \cup {<<>>}

WidgetIds ==
    {"worldwide-energy-type-dropdown", "energy-type-dropdown", "year-dropdown",
     "entity-dropdown", "region-dropdown", "year-slider"}

\* the user changes one widget of the displayed view; its callback runs
ChangeWidget(id, value) ==
    /\ phase = "running"
    /\ id \in DOMAIN widgets
    /\ value \in WidgetValues(id)
    /\ value # widgets[id]
    /\ widgets' = [widgets EXCEPT ![id] = value]
    /\ Dispatch(widgets')
    /\ UNCHANGED <<phase, layout, callbacks, csv, energy_entities,
                   energy_year_min, energy_year_max, triggered, prompt>>

Next ==
    \/ \E file \in Files : Startup(file)
    \/ PageLoad
    \/ \E button \in Buttons : Click(button)
    \/ InitialCallback
    \/ \E id \in WidgetIds : \E value \in WidgetValues(id) : ChangeWidget(id, value)

Spec == Init /\ [][Next]_vars

(***************************************************************************)
(* Vocabulary of the properties.                                           *)
(***************************************************************************)
Components == DOMAIN widgets \cup DOMAIN figs

WorldwideIds == {"worldwide-energy-type-dropdown", "fig-worldwide-map"}
EnergyTypesIds ==
    {"year-dropdown", "entity-dropdown", "fig-energy-pie", "fig-energy-area",
     "fig-energy-bar"}
SearchIds ==
    {"year-slider", "region-dropdown", "energy-type-dropdown", "fig-search-line",
     "fig-search-bar", "fig-search-pie", "fig-search-area"}

IdsOfButton(button) ==
    CASE button = "btn-worldwide" -> WorldwideIds
      [] button = "btn-energy-types" -> EnergyTypesIds
      [] button = "btn-search" -> SearchIds

InWorldwide == phase = "running" /\ "fig-worldwide-map" \in DOMAIN figs
InEnergyTypes == phase = "running" /\ "fig-energy-pie" \in DOMAIN figs
InSearch == phase = "running" /\ "fig-search-line" \in DOMAIN figs

\* the callback of the displayed view has run on the current widget values
CallbackRan == ~pending /\ cb_result # "none"

AllFigs(P(_)) == \A g \in DOMAIN figs : P(figs[g])

IsPlaceholder(f, title) == f.kind = "placeholder" /\ f.title = title

RECURSIVE IdxSum(_, _)
\* sum of column col over the rows of energy_data with index in I
IdxSum(I, col) ==
    IF I = {} THEN 0
    ELSE LET i == CHOOSE i \in I : TRUE
         IN  energy_data[i][col] + IdxSum(I \ {i}, col)

\* the rows of energy_data with index in I, in dataset order
RowsAt(I) ==
    LET idx == SortedSeq(I) IN [k \in DOMAIN idx |-> energy_data[idx[k]]]

(***************************************************************************)
(* C1: before any section button has been clicked the content is the       *)
(* prompt and no view; after clicks exactly one view is displayed, the one *)
(* of the most recently clicked button.                                    *)
(***************************************************************************)
C1_ViewSelection ==
    /\ triggered = "not_called" => (~prompt /\ Components = {})
    /\ triggered = None => (prompt /\ Components = {})
    /\ triggered \in Buttons =>
          /\ ~prompt
          /\ Components = IdsOfButton(triggered)
          /\ \A b \in Buttons \ {triggered} : Components \cap IdsOfButton(b) = {}

\* the Search button was clicked last and the Search view (with charts) is shown
C1_Witness ==
    /\ triggered = "btn-search"
    /\ Components = SearchIds
    /\ CallbackRan
    /\ figs["fig-search-line"].kind = "line"

(***************************************************************************)
(* C2: whenever a required selection of the displayed view is missing or   *)
(* empty, the view's callback returns an explanatory placeholder for every *)
(* output; year = max year with no entity gives the 'select a year and at  *)
(* least one entity' placeholder on pie, area and bar.                     *)
(***************************************************************************)
MissingSelection ==
    \/ InWorldwide /\ widgets["worldwide-energy-type-dropdown"] = None
    \/ InEnergyTypes /\ (\/ widgets["year-dropdown"] = NoYear
                          \/ widgets["entity-dropdown"] = {})
    \/ InSearch /\ (\/ widgets["region-dropdown"] = {}
                     \/ widgets["energy-type-dropdown"] = None
                     \/ widgets["year-slider"] = <<>>)

C2_MissingSelectionPlaceholder ==
    (CallbackRan /\ MissingSelection) =>
        /\ cb_result = "returned"
        /\ AllFigs(LAMBDA f : f.kind = "placeholder")
        /\ InEnergyTypes => AllFigs(LAMBDA f : IsPlaceholder(f, SelectYearEntityMsg))

(***************************************************************************)
(* C3: when the rows selected by the current filter are empty, the         *)
(* callback of the view (EnergyTypes, Search and Worldwide alike) does not *)
(* raise and every output is the 'no data' placeholder.                    *)
(***************************************************************************)
SelectedRowsEmpty ==
    \/ /\ InWorldwide
       /\ widgets["worldwide-energy-type-dropdown"] # None
       /\ energy_data = <<>>
    \/ /\ InEnergyTypes
       /\ widgets["year-dropdown"] # NoYear
       /\ widgets["entity-dropdown"] # {}
       /\ ~\E i \in DOMAIN energy_data :
              /\ energy_data[i].Year = widgets["year-dropdown"]
              /\ energy_data[i].Entity \in widgets["entity-dropdown"]
    \/ /\ InSearch
       /\ widgets["region-dropdown"] # {}
       /\ widgets["energy-type-dropdown"] # None
       /\ widgets["year-slider"] # <<>>
       /\ ~\E i \in DOMAIN energy_data :
              /\ energy_data[i].Year >= widgets["year-slider"][1]
              /\ energy_data[i].Year <= widgets["year-slider"][2]
              /\ energy_data[i].Entity \in widgets["region-dropdown"]

C3_EmptyFilterNoData ==
    (CallbackRan /\ SelectedRowsEmpty) =>
        /\ cb_result = "returned"
        /\ AllFigs(LAMBDA f :
              \/ IsPlaceholder(f, NoDataYearEntityMsg)
              \/ IsPlaceholder(f, NoDataFiltersMsg))

(***************************************************************************)
(* C4: if load or resolve (ISO codes, year bounds) fails, the application  *)
(* ends in the static error layout, the interactive layout is never        *)
(* installed and no callback is registered; callbacks are registered only  *)
(* when both succeeded.                                                    *)
(***************************************************************************)
C4_StartupFailure ==
    /\ phase \in {"error", "crashed"} => (layout = "error" /\ callbacks = {})
    /\ callbacks # {} => (phase = "running" /\ layout = "interactive")

(***************************************************************************)
(* C5: in the EnergyTypes view with year Y and entities E (some row of     *)
(* year Y in E), pie and bar are built from the rows with year = Y and     *)
(* entity in E only; the area table is built from the rows with year <= Y  *)
(* and entity in E, and its value at year y is the sum over those rows     *)
(* with year <= y.                                                         *)
(***************************************************************************)
RowsOfYearIn(Y, E) ==
    {i \in DOMAIN energy_data :
        energy_data[i].Year = Y /\ energy_data[i].Entity \in E}

RowsUpToYearIn(Y, E) ==
    {i \in DOMAIN energy_data :
        energy_data[i].Year <= Y /\ energy_data[i].Entity \in E}

C5_EnergyTypesTables ==
    LET Y == widgets["year-dropdown"]
        E == widgets["entity-dropdown"]
        pie == figs["fig-energy-pie"]
        bar == figs["fig-energy-bar"]
        area == figs["fig-energy-area"]
        areaYears == {energy_data[i].Year : i \in RowsUpToYearIn(Y, E)}
    IN  (InEnergyTypes /\ CallbackRan /\ Y # NoYear /\ RowsOfYearIn(Y, E) # {}) =>
            /\ pie.kind = "pie"
            /\ \A k \in DOMAIN energy_types :
                  \E j \in DOMAIN pie.table :
                      /\ pie.table[j]["Energy Type"] = energy_types[k]
                      /\ pie.table[j]["Total Consumption (TWh)"] =
                             IdxSum(RowsOfYearIn(Y, E), energy_types[k])
            /\ bar.kind = "bar"
            /\ bar.table = RowsAt(RowsOfYearIn(Y, E))
            /\ area.kind = "area"
            /\ {area.table[j].Year : j \in DOMAIN area.table} = areaYears
            /\ Len(area.table) = Cardinality(areaYears)
            /\ \A j \in DOMAIN area.table : \A k \in DOMAIN energy_types :
                  area.table[j][energy_types[k]] =
                      IdxSum(RowsUpToYearIn(area.table[j].Year, E), energy_types[k])

\* the dataset is {(Tunisia, first year, wind=1, solar=2), (Tunisia, next year,
\* wind=3, solar=0)}; the next year is selected: pie shows wind=3, area wind=4, solar=2
C5_Witness ==
    /\ InEnergyTypes /\ CallbackRan
    /\ Len(energy_data) = 2
    /\ \E i, j \in DOMAIN energy_data :
          /\ energy_data[i].Entity = "Tunisia" /\ energy_data[i].Year = FirstYear
          /\ energy_data[i][Wind] = 1 /\ energy_data[i][Solar] = 2
          /\ energy_data[j].Entity = "Tunisia" /\ energy_data[j].Year = FirstYear + 1
          /\ energy_data[j][Wind] = 3 /\ energy_data[j][Solar] = 0
    /\ widgets["year-dropdown"] = FirstYear + 1
    /\ widgets["entity-dropdown"] = {"Tunisia"}
    /\ figs["fig-energy-pie"].kind = "pie"
    /\ figs["fig-energy-pie"].table[1]["Total Consumption (TWh)"] = 3
    /\ Len(figs["fig-energy-bar"].table) = 1
    /\ LET t == figs["fig-energy-area"].table
       IN  /\ Len(t) = 2
           /\ t[2].Year = FirstYear + 1 /\ t[2][Wind] = 4 /\ t[2][Solar] = 2

(***************************************************************************)
(* C6: every cumulative by-year table (the EnergyTypes area table and the  *)
(* Search area table) has one row per distinct year of its input, in       *)
(* ascending order; the row's Year is that year and its energy value is    *)
(* the per-year sum added up over all years <= that year.                  *)
(***************************************************************************)
CumulativeTableOk(table, input, cols) ==
    LET ys == SortedSeq({energy_data[i].Year : i \in input})
    IN  /\ Len(table) = Len(ys)
        /\ \A k \in DOMAIN table :
              /\ table[k].Year = ys[k]
              /\ \A c \in cols :
                    table[k][c] =
                        IdxSum({i \in input : energy_data[i].Year <= ys[k]}, c)

RowsInRange(r, R) ==
    {i \in DOMAIN energy_data :
        /\ energy_data[i].Year >= r[1]
        /\ energy_data[i].Year <= r[2]
        /\ energy_data[i].Entity \in R}

C6_CumulativeTables ==
    /\ (InEnergyTypes /\ CallbackRan /\ figs["fig-energy-area"].kind = "area") =>
          CumulativeTableOk(figs["fig-energy-area"].table,
              RowsUpToYearIn(widgets["year-dropdown"], widgets["entity-dropdown"]),
              Range(energy_types))
    /\ (InSearch /\ CallbackRan /\ cb_result = "returned"
           /\ figs["fig-search-area"].kind = "area") =>
          CumulativeTableOk(figs["fig-search-area"].table,
              RowsInRange(widgets["year-slider"], widgets["region-dropdown"]),
              {widgets["energy-type-dropdown"]})

(***************************************************************************)
(* C7: after startup every row of the working dataset has a resolved ISO3  *)
(* code; an entity the lookup cannot resolve contributes no row and no     *)
(* value to any chart of any view; the failed lookup does not raise.       *)
(***************************************************************************)
Unresolvable == {e \in Entities : e = "World"}

\* the CSV cell as loaded (a missing energy value counts 0)
CsvCell(i, col) == IF csv[i][col] = NaN THEN 0 ELSE csv[i][col]

RECURSIVE CsvSum(_, _)
\* sum of column col over the CSV lines with index in I
CsvSum(I, col) ==
    IF I = {} THEN 0
    ELSE LET i == CHOOSE i \in I : TRUE
         IN  CsvCell(i, col) + CsvSum(I \ {i}, col)

\* CSV lines of resolvable entities among E, with year in lo..hi
ResolvedLines(E, lo, hi) ==
    {i \in DOMAIN csv :
        /\ csv[i].Entity \in E \ Unresolvable
        /\ lo <= csv[i].Year /\ csv[i].Year <= hi}

HasEntityColumn(f) ==
    /\ "table" \in DOMAIN f
    /\ f.table # <<>>
    /\ "Entity" \in DOMAIN f.table[1]

C7_ResolvedRowsOnly ==
    /\ (\E i \in DOMAIN csv : csv[i].Entity \in Unresolvable) => phase = "running"
    /\ phase = "running" =>
          /\ \A i \in DOMAIN energy_data :
                /\ energy_data[i].ISO_A3 # None
                /\ energy_data[i].Entity \notin Unresolvable
          /\ Len(energy_data) =
                Cardinality({i \in DOMAIN csv : csv[i].Entity \notin Unresolvable})
          /\ AllFigs(LAMBDA f : HasEntityColumn(f) =>
                \A k \in DOMAIN f.table : f.table[k].Entity \notin Unresolvable)
          /\ (InEnergyTypes /\ CallbackRan /\ figs["fig-energy-pie"].kind = "pie") =>
                LET Y == widgets["year-dropdown"]
                    E == widgets["entity-dropdown"]
                    pie == figs["fig-energy-pie"].table
                    area == figs["fig-energy-area"].table
                IN  /\ \A k \in DOMAIN pie :
                          pie[k]["Total Consumption (TWh)"] =
                              CsvSum(ResolvedLines(E, Y, Y), pie[k]["Energy Type"])
                    /\ \A k \in DOMAIN area : \A c \in Range(energy_types) :
                          area[k][c] =
                              CsvSum(ResolvedLines(E, FirstYear, area[k].Year), c)
          /\ (InSearch /\ CallbackRan /\ cb_result = "returned"
                 /\ figs["fig-search-pie"].kind = "pie") =>
                LET r == widgets["year-slider"]
                    R == widgets["region-dropdown"]
                    t == widgets["energy-type-dropdown"]
                    pie == figs["fig-search-pie"].table
                    area == figs["fig-search-area"].table
                IN  /\ \A k \in DOMAIN pie :
                          pie[k][t] = CsvSum(ResolvedLines({pie[k].Entity}, r[1], r[2]), t)
                    /\ area # <<>>
                    /\ area[Len(area)][t] = CsvSum(ResolvedLines(R, r[1], r[2]), t)
          /\ (InWorldwide /\ CallbackRan /\ cb_result = "returned") =>
                LET t == widgets["worldwide-energy-type-dropdown"]
                    map == figs["fig-worldwide-map"].table
                IN  \A k \in DOMAIN map : map[k].ISO_A3 # None

\* the CSV has a World line of the selected year, World is among the selected
\* entities, and the charts are built (from the other entity's rows only)
C7_Witness ==
    /\ InEnergyTypes /\ CallbackRan
    /\ "World" \in widgets["entity-dropdown"]
    /\ \E i \in DOMAIN csv :
          csv[i].Entity = "World" /\ csv[i].Year = widgets["year-dropdown"]
    /\ figs["fig-energy-pie"].kind = "pie"
    /\ Len(figs["fig-energy-bar"].table) = 1

(***************************************************************************)
(* C8: the Search year-range filter [a, b] keeps exactly the rows of the   *)
(* selected regions with a <= year <= b; for a = b it keeps exactly the    *)
(* rows the EnergyTypes single-year filter keeps for year a and the same   *)
(* entities.                                                               *)
(***************************************************************************)
C8_YearRangeFilter ==
    LET r == widgets["year-slider"]
        R == widgets["region-dropdown"]
        kept == {i \in DOMAIN energy_data :
                    /\ r[1] <= energy_data[i].Year
                    /\ energy_data[i].Year <= r[2]
                    /\ energy_data[i].Entity \in R}
        line == figs["fig-search-line"]
        bar == figs["fig-search-bar"]
    IN  (InSearch /\ CallbackRan /\ cb_result = "returned" /\ R # {}
           /\ widgets["energy-type-dropdown"] # None) =>
            /\ kept = {} => AllFigs(LAMBDA f : IsPlaceholder(f, NoDataFiltersMsg))
            /\ kept # {} =>
                  /\ line.kind = "line" /\ line.table = RowsAt(kept)
                  /\ bar.kind = "bar" /\ bar.table = RowsAt(kept)
            /\ r[1] = r[2] =>
                  /\ kept = {} => FilterYearEntities(energy_data, r[1], R) = <<>>
                  /\ kept # {} => line.table = FilterYearEntities(energy_data, r[1], R)

\* a one-year range is selected, the chart holds the row of that year and the
\* selected region has a row of another year that is left out
C8_Witness ==
    /\ InSearch /\ CallbackRan
    /\ widgets["year-slider"] # <<>>
    /\ widgets["year-slider"][1] = widgets["year-slider"][2]
    /\ figs["fig-search-line"].kind = "line"
    /\ \E i \in DOMAIN energy_data :
          /\ energy_data[i].Entity \in widgets["region-dropdown"]
          /\ energy_data[i].Year # widgets["year-slider"][1]

(***************************************************************************)
(* C9: once startup has completed, no section click, initial callback or   *)
(* widget change alters the working dataset.                               *)
(***************************************************************************)
C9_DatasetImmutable ==
    [][phase = "running" => energy_data' = energy_data]_vars

\* a callback has built charts from a non-empty dataset
C9_Witness ==
    /\ phase = "running"
    /\ CallbackRan
    /\ energy_data # <<>>
    /\ \E g \in DOMAIN figs : figs[g].kind \notin {"none", "placeholder"}

(***************************************************************************)
(* C10: for every energy type the Worldwide map table has exactly one row  *)
(* per (entity, ISO code) pair with a row in the maximum year of the       *)
(* working dataset; its value is the sum of that type over the pair's rows *)
(* of that year; earlier years and entities absent from that year do not   *)
(* contribute.                                                             *)
(***************************************************************************)
LatestYear == SetMax({energy_data[i].Year : i \in DOMAIN energy_data})

LatestPairs ==
    {<<energy_data[i].Entity, energy_data[i].ISO_A3>> :
        i \in {j \in DOMAIN energy_data : energy_data[j].Year = LatestYear}}

C10_WorldwideLatestYear ==
    LET t == widgets["worldwide-energy-type-dropdown"]
        map == figs["fig-worldwide-map"]
    IN  (InWorldwide /\ CallbackRan /\ cb_result = "returned") =>
            /\ map.kind = "choropleth"
            /\ energy_data = <<>> => map.table = <<>>
            /\ energy_data # <<>> =>
                  /\ Len(map.table) = Cardinality(LatestPairs)
                  /\ \A p \in LatestPairs :
                        \E k \in DOMAIN map.table :
                            /\ map.table[k].Entity = p[1]
                            /\ map.table[k].ISO_A3 = p[2]
                            /\ map.table[k][t] =
                                  IdxSum({i \in DOMAIN energy_data :
                                            /\ energy_data[i].Year = LatestYear
                                            /\ energy_data[i].Entity = p[1]
                                            /\ energy_data[i].ISO_A3 = p[2]}, t)

\* a map of solar power is shown; one entity has a row only in an earlier year
\* and is not on the map
C10_Witness ==
    /\ InWorldwide /\ CallbackRan /\ cb_result = "returned"
    /\ widgets["worldwide-energy-type-dropdown"] = Solar
    /\ Len(figs["fig-worldwide-map"].table) = 1
    /\ \E i \in DOMAIN energy_data :
          /\ energy_data[i].Year < LatestYear
          /\ energy_data[i].Entity # figs["fig-worldwide-map"].table[1].Entity

(***************************************************************************)
(* C11: every choice the filter widgets offer is backed by the working     *)
(* dataset: each entity offered by the entity and region dropdowns has a   *)
(* row in the working dataset, and the bounds of the year dropdown and     *)
(* year slider are the minimum and maximum year of the working dataset.    *)
(***************************************************************************)
C11_OptionsBackedByDataset ==
    (InEnergyTypes \/ InSearch) =>
        /\ \A e \in EntityOptions :
              \E i \in DOMAIN energy_data : energy_data[i].Entity = e
        /\ energy_data # <<>> =>
              /\ energy_year_min = SetMin({energy_data[i].Year : i \in DOMAIN energy_data})
              /\ energy_year_max = SetMax({energy_data[i].Year : i \in DOMAIN energy_data})
              /\ \A y \in YearOptions : energy_year_min <= y /\ y <= energy_year_max

(***************************************************************************)
(* C12: a click on a section button (also on the button of the displayed   *)
(* view) re-creates the view's widgets with their default values, so the   *)
(* selection made before the click is lost; a widget change recomputes the *)
(* charts of the displayed view only.                                      *)
(***************************************************************************)
DefaultWidgets(button) ==
    CASE button = "btn-worldwide" ->
            ("worldwide-energy-type-dropdown" :> Wind)
      [] button = "btn-energy-types" ->
            ("year-dropdown" :> energy_year_max @@ "entity-dropdown" :> {"Tunisia"})
      [] button = "btn-search" ->
            ("year-slider" :> <<energy_year_min, energy_year_max>>
             @@ "region-dropdown" :> {"Tunisia"}
             @@ "energy-type-dropdown" :> Wind)

\* only a section click leaves the callback of new widgets pending
C12_SelectionReset ==
    [][ /\ pending' => (triggered' \in Buttons /\ widgets' = DefaultWidgets(triggered'))
        /\ (~pending' /\ triggered \in Buttons /\ widgets' # widgets) =>
              /\ triggered' = triggered
              /\ DOMAIN widgets' = DOMAIN widgets
              /\ DOMAIN figs' = DOMAIN figs
              /\ DOMAIN figs' \subseteq IdsOfButton(triggered)
      ]_vars

\* the Search button has just been clicked: the slider spans the full (two-year)
\* range, Tunisia and wind power are selected, no chart is drawn yet
C12_Witness ==
    /\ pending
    /\ triggered = "btn-search"
    /\ energy_year_min < energy_year_max
    /\ widgets["year-slider"] = <<energy_year_min, energy_year_max>>
    /\ widgets["region-dropdown"] = {"Tunisia"}
    /\ widgets["energy-type-dropdown"] = Wind
    /\ figs["fig-search-line"] = NoFigure

====
